---- MODULE Spec2Model ----
(***************************************************************************)
(* The /analyze handler of main.py (analyze_text_and_get_color): the       *)
(* credential check, the retry loop around the call to the inference       *)
(* endpoint, the parsing of the payload, the CDF transformation and the    *)
(* HSL conversion.                                                         *)
(*                                                                         *)
(* Numbers.  Raw scores are small integers (3 stands for 3.0).  A value   *)
(* returned by a CDF object is the numerator n of the fraction n / Den;    *)
(* the clamp and the integer conversion are computed exactly on that       *)
(* fraction (for the denominators used here Python's float arithmetic      *)
(* gives the same integers).  The CDF objects come from a pickle that is   *)
(* not part of the                                                         *)
(* repository, so the value one returns for a numeric score is an input    *)
(* of the model; the objects are taken to be total on numeric scores.      *)
(***************************************************************************)
EXTENDS Integers, Sequences, FiniteSets, TLC

VARIABLES
    HUGGING_FACE_API_KEY,   \* module global, line 16
    cdfs,                   \* module global, lines 19-30: "loaded" or "None"
    pc,                     \* position of the handler
    attempt,                \* loop variable of the retry loop, line 77
    remaining,              \* seconds left of the running time.sleep, line 88
    model_output,           \* local, line 83
    vad_scores,             \* valence_score, arousal_score, dominance_score
    vad,                    \* valence, arousal, dominance after the clamp
    result,                 \* what the handler returned or raised
    calls,                  \* observer: requests.post calls issued
    delays,                 \* observer: time.sleep calls started
    n503,                   \* observer: 503 answers received
    last,                   \* observer: outcome of the latest requests.post
    cancelled               \* environment: the caller has gone away

vars == <<HUGGING_FACE_API_KEY, cdfs, pc, attempt, remaining, model_output,
          vad_scores, vad, result, calls, delays, n503, last, cancelled>>

-----------------------------------------------------------------------------
(* Bounds of the model. *)

\* Denominator of the grid of CDF values: a CDF object returns n / Den.
Den == 6
\* Raw scores a record may carry: 1 .. NumScores.
NumScores == 3

(* Constants of the program. *)

max_retries == 5
base_delay == 5
NeutralScore == 3
HueScale == 240
SatBase == 40
SatScale == 60
LightBase == 30
LightScale == 40

-----------------------------------------------------------------------------
(* Values. *)

Dims == {"V", "A", "D"}

\* os.getenv gives None when the variable is absent; it may also be empty.
KeyNone == "None"
Keys == {KeyNone, "", "hf_token"}

\* A score as Python holds it: a number, None (JSON null, or the key
\* "score" missing so that item.get gives None), or a string.
Num(n) == [t |-> "num", v |-> n]
ScoreNone == [t |-> "none", v |-> 0]
ScoreStr == [t |-> "str", v |-> 0]
Unset == [t |-> "unset", v |-> 0]

RawScores == 1 .. NumScores

\* Elements of a JSON array: a {label, score} object, a scalar (number,
\* string, null) or an inner array.  A label that is itself an array or an
\* object is unhashable in Python.
Unhashable == "<unhashable>"
Rec(lbl, sc) == [t |-> "rec", label |-> lbl, score |-> sc, items |-> <<>>]
Scalar == [t |-> "scalar", label |-> "", score |-> Unset, items |-> <<>>]
Inner(xs) == [t |-> "list", label |-> "", score |-> Unset, items |-> xs]

\* A decoded JSON body.  A string is the sequence of its characters.
JList(xs) == [t |-> "list", items |-> xs]
JObject == [t |-> "object", items |-> <<>>]
JNumber == [t |-> "number", items |-> <<>>]
JNull == [t |-> "null", items |-> <<>>]
JString(n) == [t |-> "string", items |-> [i \in 1 .. n |-> Scalar]]
\* model_output before line 83 has run: the name is not bound.
Unbound == [t |-> "unbound", items |-> <<>>]
NoPayload == [t |-> "none", items |-> <<>>]

NoScores == [d \in Dims |-> Unset]
NoVad == [d \in Dims |-> 0]

NoResult ==
    [kind |-> "none", category |-> "", status |-> 0,
     h |-> 0, s |-> 0, l |-> 0, detail |-> NoPayload]
HTTPException(cat, st, det) ==
    [kind |-> "error", category |-> cat, status |-> st,
     h |-> 0, s |-> 0, l |-> 0, detail |-> det]
\* An exception the handler does not turn into an HTTPException: the
\* framework answers 500 Internal Server Error.
Unhandled == HTTPException("unhandled", 500, NoPayload)
HSLResponse(hh, ss, ll) ==
    [kind |-> "color", category |-> "", status |-> 200,
     h |-> hh, s |-> ss, l |-> ll, detail |-> NoPayload]

-----------------------------------------------------------------------------
(* The credential check, line 67: `not HUGGING_FACE_API_KEY`. *)

\* Variant: tests `is None` only, so an empty credential passes.
KeyNotConfigured_IsNone(k) == k = KeyNone

KeyNotConfigured(k) == k \in {KeyNone, ""}

(* The retry loop, lines 74-91. *)

\* Variant: the bound of the loop taken as the bound of the test.
CanRetry_OffByOne(a) == a < max_retries

\* Line 86.
CanRetry(a) == a < max_retries - 1

\* Statuses for which response.raise_for_status() raises HTTPError, a
\* subclass of RequestException (line 82); 503 never gets there (line 80).
HttpErrorStatuses == {"400", "401", "500"}

-----------------------------------------------------------------------------
(* Parsing, lines 95-112. *)

label_to_vad_map ==
    ("LABEL_0" :> "V") @@ ("LABEL_1" :> "A") @@ ("LABEL_2" :> "D")

\* Line 98.  model_output[0] raises KeyError on an object (its keys are
\* strings), TypeError on a number or null, IndexError on an empty array or
\* an empty string, and UnboundLocalError when the name was never bound.
\* Only the first three are caught at line 111.
OutputList(m) ==
    CASE m.t = "unbound" -> [status |-> "unhandled", list |-> <<>>]
      [] m.t \in {"object", "number", "null"} ->
            [status |-> "malformed", list |-> <<>>]
      [] OTHER ->
            IF Len(m.items) = 0
            THEN [status |-> "malformed", list |-> <<>>]
            ELSE IF m.items[1].t = "list"
                 THEN [status |-> "ok", list |-> m.items[1].items]
                 ELSE [status |-> "ok", list |-> m.items]

\* Lines 100-105, from item i on.  item.get raises AttributeError on
\* anything that is not an object (not caught at line 111); the test
\* `generic_label in label_to_vad_map` raises TypeError on an unhashable
\* label (caught).
RECURSIVE ParseLoop(_, _, _)
ParseLoop(list, i, scores) ==
    IF i > Len(list)
    THEN [status |-> "ok", scores |-> scores]
    ELSE LET item == list[i] IN
         IF item.t # "rec"
         THEN [status |-> "unhandled", scores |-> scores]
         ELSE IF item.label = Unhashable
         THEN [status |-> "malformed", scores |-> scores]
         ELSE IF item.label \in DOMAIN label_to_vad_map
         THEN ParseLoop(list, i + 1,
                  [scores EXCEPT ![label_to_vad_map[item.label]] = item.score])
         ELSE ParseLoop(list, i + 1, scores)

\* Variant: no default for a dimension that has no record.
ScoresGet_NoDefault(scores, d) ==
    IF scores[d].t = "unset" THEN ScoreNone ELSE scores[d]

\* Lines 107-109: scores.get(d, 3.0).
ScoresGet(scores, d) ==
    IF scores[d].t = "unset" THEN Num(NeutralScore) ELSE scores[d]

\* Lines 95-112 as a whole.
ParseScores(m) ==
    LET ol == OutputList(m) IN
    IF ol.status # "ok"
    THEN [status |-> ol.status, scores |-> NoScores]
    ELSE LET r == ParseLoop(ol.list, 1, NoScores) IN
         IF r.status # "ok"
         THEN [status |-> r.status, scores |-> NoScores]
         ELSE [status |-> "ok",
               scores |-> [d \in Dims |-> ScoresGet(r.scores, d)]]

-----------------------------------------------------------------------------
(* The transformation and the conversion, lines 119-131. *)

\* The test of line 115, `cdfs is None`.
\* Variant: the test never fires, so the handler goes on without a table.
CdfsIsNone_Never(c) == FALSE

CdfsIsNone(c) == c = "None"

\* Variant: no clamp.
Clamp_Identity(n) == n

\* Lines 124-126: min(max(x, 0.0), 1.0), on numerators over Den.
Clamp(n) ==
    LET lo == IF n > 0 THEN n ELSE 0 IN
    IF lo < Den THEN lo ELSE Den

\* int() of the fraction num / Den: truncation toward zero.
IntOf(num) ==
    IF num >= 0 THEN num \div Den ELSE -((-num) \div Den)

\* Lines 129-131.
Hue(valence) == IntOf(valence * HueScale)
Saturation(arousal) == IntOf(SatBase * Den + arousal * SatScale)
Lightness(dominance) == IntOf(LightBase * Den + dominance * LightScale)

\* Values a CDF object may return: below 0, inside [0, 1], above 1.
Grid == -1 .. Den + 1
EdgeGrid == {-1, 0, Den, Den + 1}

-----------------------------------------------------------------------------
(* Bodies the inference endpoint may send with a 200 (line 83). *)

SemanticLabel(d) == d
GenericLabel(d) ==
    CASE d = "V" -> "LABEL_0" [] d = "A" -> "LABEL_1" [] d = "D" -> "LABEL_2"
LabelOf(scheme, d) ==
    IF scheme = "generic" THEN GenericLabel(d) ELSE SemanticLabel(d)

\* An assignment gives each dimension a raw score, or 0: no record for it.
Assignments == [Dims -> 0 .. NumScores]

RecordsOf(f, scheme) ==
    LET opt(d) == IF f[d] = 0 THEN <<>>
                  ELSE <<Rec(LabelOf(scheme, d), Num(f[d]))>>
    IN opt("V") \o opt("A") \o opt("D")

\* A record whose label is in no table.
Stray == Rec("X", Num(1))

\* Arrays of records, flat and nested one level, with either labelling,
\* with and without a stray record.
RecordLists ==
    {RecordsOf(f, scheme) \o tail :
        f \in Assignments, scheme \in {"generic", "semantic"},
        tail \in {<<>>, <<Stray>>}}
FlatPayloads == {JList(xs) : xs \in RecordLists}
NestedPayloads == {JList(<<Inner(xs)>>) : xs \in RecordLists}

\* An outer array of two inner arrays, the first with a record at least.
TwoInnerPayloads ==
    {JList(<<Inner(RecordsOf(f, "generic")), Inner(ys)>>) :
        f \in Assignments \ {[d \in Dims |-> 0]},
        ys \in {<<Rec("LABEL_1", Num(1))>>, <<Scalar>>}}

\* Bodies of other shapes, and records with a bad score or label.
OddPayloads ==
    {JObject, JNumber, JNull, JString(0), JString(2),
     JList(<<Scalar>>),
     JList(<<Rec("LABEL_0", Num(1)), Scalar>>),
     JList(<<Rec("LABEL_0", Num(1)), Inner(<<Rec("LABEL_1", Num(1))>>)>>),
     JList(<<Inner(<<Scalar>>)>>),
     JList(<<Inner(<<Rec("LABEL_0", Num(1))>>), Scalar>>),
     JList(<<Rec("LABEL_0", ScoreNone)>>),
     JList(<<Rec("LABEL_0", ScoreStr)>>),
     JList(<<Rec("X", ScoreNone)>>),
     JList(<<Rec("LABEL_0", ScoreNone), Rec("LABEL_0", Num(1))>>),
     JList(<<Rec("LABEL_0", Num(1)), Rec("LABEL_0", Num(NumScores))>>),
     JList(<<Rec("LABEL_2", Num(1)), Rec("LABEL_0", Num(NumScores))>>),
     JList(<<Rec(Unhashable, Num(1))>>),
     JList(<<Rec(Unhashable, Num(1)), Scalar>>),
     JList(<<Scalar, Rec(Unhashable, Num(1))>>)}

AllPayloads ==
    FlatPayloads \cup NestedPayloads \cup TwoInnerPayloads \cup OddPayloads

\* A few bodies of each shape, for the runs that go through the retry loop.
FullScores == [d \in Dims |-> 1]
PartScores == [d \in Dims |-> IF d = "A" THEN 0 ELSE NumScores]
SomePayloads ==
    {JList(RecordsOf(FullScores, "generic")),
     JList(<<Inner(RecordsOf(FullScores, "generic"))>>),
     JList(RecordsOf(FullScores, "semantic")),
     JList(RecordsOf(PartScores, "generic")),
     JList(<<Inner(<<Rec("LABEL_0", Num(1))>>),
             Inner(<<Rec("LABEL_1", Num(1))>>)>>),
     JList(<<>>), JObject, JNumber, JString(2),
     JList(<<Scalar>>),
     JList(<<Rec("LABEL_0", ScoreNone)>>)}

-----------------------------------------------------------------------------
(* The handler. *)

Init ==
    /\ HUGGING_FACE_API_KEY \in Keys
    /\ cdfs \in {"loaded", "None"}
    /\ pc = "start"
    /\ attempt = 0
    /\ remaining = 0
    /\ model_output = Unbound
    /\ vad_scores = NoScores
    /\ vad = NoVad
    /\ result = NoResult
    /\ calls = 0
    /\ delays = 0
    /\ n503 = 0
    /\ last = "none"
    /\ cancelled = FALSE

\* The handler ends with r.
Finish(r) ==
    /\ result' = r
    /\ pc' = "done"

\* Lines 67-77.
CheckKey ==
    /\ pc = "start"
    /\ IF KeyNotConfigured(HUGGING_FACE_API_KEY)
       THEN Finish(HTTPException("config", 500, NoPayload))
       ELSE pc' = "request" /\ result' = result
    /\ UNCHANGED <<HUGGING_FACE_API_KEY, cdfs, attempt, remaining,
                   model_output, vad_scores, vad, calls, delays, n503, last,
                   cancelled>>

\* Lines 85-91: the handler of RequestException.
OnRequestException ==
    IF CanRetry(attempt)
    THEN /\ pc' = "sleep"
         /\ remaining' = base_delay
         /\ delays' = delays + 1
         /\ result' = result
    ELSE /\ Finish(HTTPException("upstream_unavailable", 503, NoPayload))
         /\ UNCHANGED <<remaining, delays>>

\* Lines 79-84: the endpoint answers 200 with a body that decodes.
Respond200(payloads) ==
    /\ pc = "request"
    /\ \E p \in payloads : model_output' = p
    /\ calls' = calls + 1
    /\ last' = "200"
    /\ pc' = "parse"
    /\ UNCHANGED <<HUGGING_FACE_API_KEY, cdfs, attempt, remaining,
                   vad_scores, vad, result, delays, n503, cancelled>>

\* Lines 79-81 and 85-91: the endpoint answers 503.
Respond503 ==
    /\ pc = "request"
    /\ calls' = calls + 1
    /\ n503' = n503 + 1
    /\ last' = "503"
    /\ OnRequestException
    /\ UNCHANGED <<HUGGING_FACE_API_KEY, cdfs, attempt, model_output,
                   vad_scores, vad, cancelled>>

\* Lines 79-82 and 85-91: another 4xx or 5xx status; raise_for_status
\* raises HTTPError, which the except clause of line 85 catches.
RespondHttpError ==
    /\ pc = "request"
    /\ calls' = calls + 1
    /\ \E st \in HttpErrorStatuses : last' = st
    /\ OnRequestException
    /\ UNCHANGED <<HUGGING_FACE_API_KEY, cdfs, attempt, model_output,
                   vad_scores, vad, n503, cancelled>>

\* Lines 79 and 85-91: requests.post raises (no connection, or no answer
\* within the timeout of 20 s).
TransportFailure ==
    /\ pc = "request"
    /\ calls' = calls + 1
    /\ last' = "transport"
    /\ OnRequestException
    /\ UNCHANGED <<HUGGING_FACE_API_KEY, cdfs, attempt, model_output,
                   vad_scores, vad, n503, cancelled>>

\* Lines 79-83: a 200 whose body is not JSON.  response.json() raises
\* requests.exceptions.JSONDecodeError, a RequestException, in requests
\* 2.27 and later, and a plain ValueError before; the version is not pinned.
RespondBadJson ==
    /\ pc = "request"
    /\ calls' = calls + 1
    /\ last' = "badjson"
    /\ \/ OnRequestException
       \/ Finish(Unhandled) /\ UNCHANGED <<remaining, delays>>
    /\ UNCHANGED <<HUGGING_FACE_API_KEY, cdfs, attempt, model_output,
                   vad_scores, vad, n503, cancelled>>

\* Line 88, one second of time.sleep(base_delay).
Tick ==
    /\ pc = "sleep"
    /\ remaining > 0
    /\ remaining' = remaining - 1
    /\ UNCHANGED <<HUGGING_FACE_API_KEY, cdfs, pc, attempt, model_output,
                   vad_scores, vad, result, calls, delays, n503, last,
                   cancelled>>

\* Lines 88 and 77: the sleep returns and the loop takes its next value;
\* when range(max_retries) is used up the loop ends with no break and
\* model_output stays unbound.
Wake ==
    /\ pc = "sleep"
    /\ remaining = 0
    /\ attempt' = attempt + 1
    /\ pc' = IF attempt + 1 < max_retries THEN "request" ELSE "parse"
    /\ UNCHANGED <<HUGGING_FACE_API_KEY, cdfs, remaining, model_output,
                   vad_scores, vad, result, calls, delays, n503, last,
                   cancelled>>

\* Lines 95-112.
Parse ==
    /\ pc = "parse"
    /\ LET r == ParseScores(model_output) IN
       CASE r.status = "ok" ->
                /\ vad_scores' = r.scores
                /\ pc' = "cdf"
                /\ result' = result
         [] r.status = "malformed" ->
                /\ Finish(HTTPException("malformed_response", 500,
                                        model_output))
                /\ vad_scores' = vad_scores
         [] OTHER ->
                /\ Finish(Unhandled)
                /\ vad_scores' = vad_scores
    /\ UNCHANGED <<HUGGING_FACE_API_KEY, cdfs, attempt, remaining,
                   model_output, vad, calls, delays, n503, last, cancelled>>

\* Lines 115-116.
CheckCdfs ==
    /\ pc = "cdf"
    /\ IF CdfsIsNone(cdfs)
       THEN Finish(HTTPException("normalization_unavailable", 500, NoPayload))
       ELSE pc' = "transform" /\ result' = result
    /\ UNCHANGED <<HUGGING_FACE_API_KEY, cdfs, attempt, remaining,
                   model_output, vad_scores, vad, calls, delays, n503, last,
                   cancelled>>

\* Lines 119-133.  A CDF object called with None or a string raises an
\* exception that nothing catches; called with a number it returns a
\* value of `outs`.
Transform(outs) ==
    /\ pc = "transform"
    /\ IF \E d \in Dims : vad_scores[d].t # "num"
       THEN Finish(Unhandled) /\ vad' = vad
       ELSE \E v \in outs, a \in outs, d \in outs :
              LET valence == Clamp(v)
                  arousal == Clamp(a)
                  dominance == Clamp(d)
              IN /\ vad' = [V |-> valence, A |-> arousal, D |-> dominance]
                 /\ Finish(HSLResponse(Hue(valence), Saturation(arousal),
                                       Lightness(dominance)))
    /\ UNCHANGED <<HUGGING_FACE_API_KEY, cdfs, attempt, remaining,
                   model_output, vad_scores, calls, delays, n503, last,
                   cancelled>>

\* The caller disconnects, or its deadline passes, while the handler is in
\* the retry loop.  The handler has no await and reads no such signal:
\* requests.post and time.sleep block the event loop (lines 62, 79, 88).
Cancel ==
    /\ pc \in {"request", "sleep"}
    /\ ~cancelled
    /\ cancelled' = TRUE
    /\ UNCHANGED <<HUGGING_FACE_API_KEY, cdfs, pc, attempt, remaining,
                   model_output, vad_scores, vad, result, calls, delays,
                   n503, last>>

Fetch200 == Respond200(SomePayloads)
TransformGrid == Transform(Grid)

Next ==
    \/ CheckKey
    \/ Fetch200
    \/ Respond503
    \/ RespondHttpError
    \/ TransportFailure
    \/ RespondBadJson
    \/ Tick
    \/ Wake
    \/ Parse
    \/ CheckCdfs
    \/ TransformGrid
    \/ Cancel

Spec == Init /\ [][Next]_vars

\* The handler from the point where the first call has returned a 200,
\* for every body of AllPayloads.
InitParse ==
    /\ HUGGING_FACE_API_KEY = "hf_token"
    /\ cdfs \in {"loaded", "None"}
    /\ pc = "parse"
    /\ attempt = 0
    /\ remaining = 0
    /\ model_output \in AllPayloads
    /\ vad_scores = NoScores
    /\ vad = NoVad
    /\ result = NoResult
    /\ calls = 1
    /\ delays = 0
    /\ n503 = 0
    /\ last = "200"
    /\ cancelled = FALSE

TransformEdges == Transform(EdgeGrid)

NextParse ==
    \/ Parse
    \/ CheckCdfs
    \/ TransformEdges

SpecParse == InitParse /\ [][NextParse]_vars

-----------------------------------------------------------------------------
(* What the properties below say about a body, stated without the parser. *)

\* A record holding a label and a numeric score.
IsRecord(e) == e.t = "rec" /\ e.label # Unhashable /\ e.score.t = "num"
AllRecords(xs) == \A i \in 1 .. Len(xs) : IsRecord(xs[i])

\* A non-empty sequence of records, or a non-empty sequence of sequences
\* of records.
IsFlat(m) == m.t = "list" /\ Len(m.items) > 0 /\ AllRecords(m.items)
IsNested(m) ==
    /\ m.t = "list"
    /\ Len(m.items) > 0
    /\ \A i \in 1 .. Len(m.items) :
          m.items[i].t = "list" /\ AllRecords(m.items[i].items)
WellFormed(m) == IsFlat(m) \/ IsNested(m)

RECURSIVE Concat(_, _)
Concat(xss, i) ==
    IF i > Len(xss) THEN <<>> ELSE xss[i].items \o Concat(xss, i + 1)

\* The records of a well-formed body with one level of nesting removed.
Flattened(m) == IF IsFlat(m) THEN m.items ELSE Concat(m.items, 1)
\* The records of a well-formed body, those of the first inner sequence
\* only when it is nested.
FirstSequence(m) == IF IsFlat(m) THEN m.items ELSE m.items[1].items

HasLabel(xs, lbl) == \E i \in 1 .. Len(xs) : xs[i].label = lbl
LastWith(xs, lbl) ==
    xs[CHOOSE i \in 1 .. Len(xs) :
          /\ xs[i].label = lbl
          /\ \A j \in i + 1 .. Len(xs) : xs[j].label # lbl]

\* The raw scores of the records xs under the generic labels: the score of
\* the (last) record of a dimension, 3.0 for a dimension with no record.
ExpectedScores(xs) ==
    [d \in Dims |->
        IF HasLabel(xs, GenericLabel(d))
        THEN LastWith(xs, GenericLabel(d)).score
        ELSE Num(3)]

\* A well-formed body all of whose records carry the labels V, A, D.
SemanticOnly(m) ==
    /\ WellFormed(m)
    /\ Len(Flattened(m)) > 0
    /\ \A i \in 1 .. Len(Flattened(m)) : Flattened(m)[i].label \in Dims

\* The same body with V, A, D written LABEL_0, LABEL_1, LABEL_2.
Relabel(e) ==
    IF e.t = "rec" /\ e.label \in Dims
    THEN [e EXCEPT !.label = GenericLabel(e.label)]
    ELSE IF e.t = "list"
    THEN [e EXCEPT !.items =
            [i \in 1 .. Len(e.items) |->
                IF e.items[i].label \in Dims
                THEN [e.items[i] EXCEPT !.label = GenericLabel(e.items[i].label)]
                ELSE e.items[i]]]
    ELSE e
AsGeneric(m) == [m EXCEPT !.items = [i \in 1 .. Len(m.items) |-> Relabel(m.items[i])]]

\* The parsing stage is over for a body that was fetched.
PastParse == last = "200" /\ pc \in {"cdf", "transform", "done"}
ParseFailed ==
    pc = "done" /\ vad_scores = NoScores /\ result.kind = "error"

-----------------------------------------------------------------------------
(* Properties. *)

\* C1.  Retry count.  While every answer so far was a 503 and fewer than
\* five calls were made, the request is still in the retry loop; a 200
\* with a well-formed body after k answers of 503 (k in 0..4) is the call
\* number k+1, made with loop index k, and the request (credential and CDF
\* table in place) ends with a colour; five answers of 503 end the request
\* with the upstream-unavailable error after exactly five calls; there is
\* never a sixth call.
C1_RetryCount ==
    /\ calls <= 5
    /\ (calls >= 1 /\ n503 = calls /\ calls < 5) => pc \in {"sleep", "request"}
    /\ (last = "200" /\ n503 = calls - 1) =>
          /\ attempt = n503
          /\ n503 \in 0 .. 4
          /\ (pc = "done" /\ WellFormed(model_output) /\ cdfs = "loaded")
                => result.kind = "color"
    /\ n503 = 5 =>
          /\ pc = "done"
          /\ result = HTTPException("upstream_unavailable", 503, NoPayload)
          /\ calls = 5

\* Four answers of 503, then a 200: the fifth call succeeds.
C1_Witness ==
    /\ pc = "done"
    /\ n503 = 4
    /\ calls = 5
    /\ last = "200"
    /\ result.kind = "color"

\* C2.  With the credential absent or empty the handler makes no call to
\* the inference endpoint and takes no delay, and ends with the
\* configuration error.
C2_NoCallWithoutKey ==
    HUGGING_FACE_API_KEY \in {KeyNone, ""} =>
        /\ calls = 0
        /\ delays = 0
        /\ pc \in {"start", "done"}
        /\ pc = "done" => result = HTTPException("config", 500, NoPayload)

C2_Witness ==
    /\ HUGGING_FACE_API_KEY = ""
    /\ pc = "done"
    /\ result.category = "config"

\* C3 as stated.  After an answer with status 400, 401 or 500 the request
\* has failed: no delay and no further call follows it.
C3_Original ==
    last \in {"400", "401", "500"} => pc = "done" /\ result.kind = "error"

C5_ColourRanges ==
    result.kind = "color" =>
        /\ \A d \in Dims : vad[d] \in 0 .. Den
        /\ result.h \in 0 .. 240
        /\ result.s \in 40 .. 100
        /\ result.l \in 30 .. 70
        /\ vad["V"] = 0 => result.h = 0
        /\ vad["A"] = 0 => result.s = 40
        /\ vad["D"] = 0 => result.l = 30
        /\ vad["V"] = Den => result.h = 240
        /\ vad["A"] = Den => result.s = 100
        /\ vad["D"] = Den => result.l = 70

C5_Witness ==
    /\ result.kind = "color"
    /\ vad = [d \in Dims |-> Den]
    /\ result.h = 240 /\ result.s = 100 /\ result.l = 70

\* C6 as stated.  A body labelled V, A, D parses, and to the same raw
\* scores as the same body labelled LABEL_0, LABEL_1, LABEL_2.
C6_Original ==
    (PastParse /\ SemanticOnly(model_output)) =>
        /\ ~ParseFailed
        /\ vad_scores = ParseScores(AsGeneric(model_output)).scores

C8_Original ==
    (pc = "done" /\ last = "200" /\ ~WellFormed(model_output)) =>
        result = HTTPException("malformed_response", 500, model_output)

C10_Original ==
    [][cancelled => calls' = calls /\ remaining' = remaining]_vars

====
